---------------------------- MODULE Spec2Model ----------------------------
(***************************************************************************)
(* Model of the chat backend: the WebSocket server's read loop and turn    *)
(* handling (server/websocket_server.py), the OpenAI adapter's response    *)
(* generator with its standard and two-phase tool flows                    *)
(* (adapters/openai_adapter.py), the tool dispatcher execute_mcp_tool, the *)
(* tool-server client's capability cache (mcp/client.py) and the local     *)
(* tool registry (mcp/tools/registry.py).                                  *)
(*                                                                         *)
(* Granularity: one action per resumption of a coroutine.  The send of a   *)
(* message yielded by the adapter is part of the action that yields it;    *)
(* a model-backend call is issued and answered in one action.              *)
(***************************************************************************)
EXTENDS Naturals, Sequences, FiniteSets, TLC

(***************************************************************************)
(* Bounds of the model.                                                    *)
(***************************************************************************)
\* Most tool calls one discovery response proposes.
MaxCalls == 2
\* Most events one backend stream delivers before it ends.
MaxChunks == 2
\* Most tools/call requests made of the tool-server clients.
MaxRemoteCalls == 2
\* Most messages an arbitrary adapter yields in one turn.
MaxYields == 3
\* Most calls made of the dispatcher on its own.
MaxDispatches == 1

(***************************************************************************)
(* Fixed sets: clients, providers, names, inputs.                          *)
(***************************************************************************)
Clients == {"c1", "c2"}

\* A tool or provider name is its sequence of "_"-separated segments:
\* <<"web", "search">> is web_search.  Prefixing, prefix and suffix tests and
\* prefix removal are computed on the segments.
Name(a) == <<a>>

\* The tool servers a configuration may name, and the tools each serves.
Providers == {"search"}

ProviderTools(p) == IF p = "search" THEN << <<"web">>, <<"fetch">> >> ELSE <<>>

\* ToolRegistry._tools after import of src.mcp.tools: the web_search handler.
LocalTools == << <<"web", "search">> >>

\* Tool names a backend may propose: the local tool web_search, the
\* namespaced remote tool search_web, a name nothing resolves.
ProposedNames == { <<"web", "search">>, <<"search", "web">>, <<"nope">> }

\* The absent request_id of a local error response, the absent field of a frame.
NoRid == "<none>"

\* Session tokens a provider may issue in the Mcp-Session-Id header; no token.
Tokens == {"s1", "s2"}

NoToken == "<no token>"

Missing == "<missing>"

\* The id the backend gives the k-th tool call of a discovery response.
CallId(k) == IF k = 1 THEN "call_1" ELSE IF k = 2 THEN "call_2" ELSE "call_3"

(***************************************************************************)
(* Inbound frames.  A frame is raw text; the model keeps what parsing and  *)
(* validation read from it: whether it is well-formed JSON, whether the    *)
(* JSON value is an object, and the object's fields.                       *)
(***************************************************************************)
Frame(wf, obj, action, text, rid) ==
    [wellformed |-> wf, object |-> obj, action |-> action, text |-> text,
     request_id |-> rid]

Frames ==
    { Frame(FALSE, FALSE, Missing, Missing, Missing),   \* truncated JSON
      Frame(TRUE, FALSE, Missing, Missing, Missing),    \* JSON, not an object
      Frame(TRUE, TRUE, "chat", Missing, "r1"),         \* payload missing
      Frame(TRUE, TRUE, "ping", "hi", "r1"),            \* unknown action
      Frame(TRUE, TRUE, "chat", "hi", "r1"),
      Frame(TRUE, TRUE, "chat", "yo", "r2"),
      Frame(TRUE, TRUE, "chat", "", "r1") }             \* empty text

\* json.loads(data): "JSONDecodeError" or the parsed value.
JsonLoads(f) == IF f.wellformed THEN "value" ELSE "JSONDecodeError"

\* ClientMessage(**message_data): a non-mapping cannot be unpacked (TypeError);
\* action must be the literal "chat", payload.text a string, request_id a
\* string.  No field has a length constraint.
ValidateClientMessage(f) ==
    IF ~f.object THEN "TypeError"
    ELSE IF f.action # "chat" \/ f.text = Missing \/ f.request_id = Missing
         THEN "ValidationError"
         ELSE "ok"

(***************************************************************************)
(* Outbound messages.                                                      *)
(***************************************************************************)
NoMeta == [key |-> "", val |-> "", n |-> 0]

Meta(k, v, n) == [key |-> k, val |-> v, n |-> n]

\* ServerMessage: request_id, status, chunk (has_chunk, type, data, metadata),
\* error.
ServerMessage(rid, status, hasChunk, type, data, meta, err) ==
    [request_id |-> rid, status |-> status, has_chunk |-> hasChunk,
     type |-> type, data |-> data, meta |-> meta, error |-> err]

ProcessingMsg(rid, text) ==
    ServerMessage(rid, "processing", TRUE, "none", <<>>, Meta("user_message", text, 0), "")

TextChunk(rid, data, meta) ==
    ServerMessage(rid, "chunk", TRUE, "text", data, meta, "")

ToolCallChunk(rid) ==
    ServerMessage(rid, "chunk", TRUE, "tool_call", <<"delta">>, NoMeta, "")

\* A tool_result chunk that carries no call id.
ToolResultChunk_NoId(rid, name, id) ==
    ServerMessage(rid, "chunk", TRUE, "tool_result", name, Meta("tool_id", "", 0), "")

ToolResultChunk(rid, name, id) ==
    ServerMessage(rid, "chunk", TRUE, "tool_result", name, Meta("tool_id", id, 0), "")

CompleteMsg(rid) ==
    ServerMessage(rid, "complete", FALSE, "none", <<>>, NoMeta, "")

\* An error status that still carries a chunk.
AdapterErrorMsg_WithChunk(rid) ==
    ServerMessage(rid, "error", TRUE, "text", <<>>, NoMeta, "openai_error")

\* The adapter's error status ("OpenAI error: ...").
AdapterErrorMsg(rid) ==
    ServerMessage(rid, "error", FALSE, "none", <<>>, NoMeta, "openai_error")

\* A turn-boundary error that does not echo the request_id.
ChatErrorMsg_NoRid(rid) ==
    ServerMessage(NoRid, "error", FALSE, "none", <<>>, NoMeta, "chat_error")

\* The server's turn-boundary error ("Chat error: ...").
ChatErrorMsg(rid) ==
    ServerMessage(rid, "error", FALSE, "none", <<>>, NoMeta, "chat_error")

\* The local error dictionaries of handle_message: status and error only.
LocalErrorMsg(kind) ==
    ServerMessage(NoRid, "error", FALSE, "none", <<>>, NoMeta, kind)

IsTerminal(m) == m.status \in {"complete", "error"}

(***************************************************************************)
(* Sequence helpers.                                                       *)
(***************************************************************************)
SeqToSet(s) == { s[i] : i \in 1..Len(s) }

RECURSIVE Concat(_, _)
Concat(ss, i) == IF i > Len(ss) THEN <<>> ELSE ss[i] \o Concat(ss, i + 1)

\* f"{provider}_{tool}": the provider's segments, then the tool's.
Namespaced(p, tool) == Name(p) \o tool

\* name.endswith(f"_{tool}"): the segments of tool end name, after at least
\* one other segment.
EndsWithUnderscored(name, tool) ==
    /\ Len(name) > Len(tool)
    /\ SubSeq(name, Len(name) - Len(tool) + 1, Len(name)) = tool

\* name.startswith(f"{provider}_").
StartsWithPrefix(name, p) ==
    /\ Len(name) > 1
    /\ name[1] = p


(***************************************************************************)
(* State.                                                                  *)
(***************************************************************************)
VARIABLES
    mcp_enabled,         \* config.mcp.enabled
    mcp_clients,         \* the tool-server clients, in registration order
    stream,              \* config.openai.stream
    capabilities,        \* per provider: MCPClient._capabilities
    active_connections,  \* WebSocketServer.active_connections (its keys)
    open,                \* per client: the transport is still open
    pc,                  \* per client: where its read loop / turn stands
    inbound,             \* per client: the frame receive_text returned
    turn,                \* per client: the turn being handled
    sent,                \* per client: messages written since the frame was read
    remoteCalls,         \* tools/call requests forwarded by MCPClient.call_tool
    results,             \* what MCPClient.call_tool returned for each of them
    session_id,          \* per provider: MCPClient._session_id
    last_token,          \* per provider: the session token it issued last
    init_outcome         \* per provider: how the last initialize() of a turn ended

\* The tool-server clients' session state and initialize() history.
clientState == <<session_id, last_token, init_outcome>>

vars == <<mcp_enabled, mcp_clients, stream, capabilities, active_connections,
          open, pc, inbound, turn, sent, remoteCalls, results, clientState>>

config == <<mcp_enabled, mcp_clients, stream>>

NoFrame == Frame(FALSE, FALSE, "", "", "")

\* _capabilities is None.
NoCapabilities == [cached |-> FALSE, tools |-> <<>>]

\* _capabilities = MCPCapabilities(tools=...).
Capabilities(tools) == [cached |-> TRUE, tools |-> tools]

\* What a provider may answer to tools/list.
ToolLists(p) == { <<>>, ProviderTools(p) }

EmptyTurn ==
    [request_id |-> NoRid, text |-> "", tools |-> <<>>, calls |-> <<>>,
     outcomes |-> <<>>, conv |-> <<>>, executed |-> <<>>,
     backend_calls |-> 0, backend_failed |-> FALSE, tool_deltas |-> 0,
     nchunks |-> 0, failed_sends |-> 0, produced |-> <<>>,
     flow |-> "", attached |-> <<>>,
     delta |-> [id |-> "", name |-> <<>>, args_ok |-> TRUE]]

(***************************************************************************)
(* Init: the process after lifespan() ran and before any client connects.  *)
(* Tool-server clients exist only when MCP is enabled; each kept client's  *)
(* initialize() returned normally, with or without a capability set.       *)
(***************************************************************************)
Init ==
    /\ mcp_enabled \in BOOLEAN
    /\ mcp_clients \in (IF mcp_enabled THEN { <<>>, <<"search">> } ELSE { <<>> })
    /\ stream \in BOOLEAN
    /\ capabilities \in
         [Providers -> {NoCapabilities}
                         \cup { Capabilities(l) : l \in UNION { ToolLists(p) : p \in Providers } }]
    /\ \A p \in Providers :
         /\ p \notin SeqToSet(mcp_clients) => capabilities[p] = NoCapabilities
         /\ capabilities[p].cached => capabilities[p].tools \in ToolLists(p)
    /\ active_connections = {}
    /\ open = [c \in Clients |-> FALSE]
    /\ pc = [c \in Clients |-> "none"]
    /\ inbound = [c \in Clients |-> NoFrame]
    /\ turn = [c \in Clients |-> EmptyTurn]
    /\ sent = [c \in Clients |-> <<>>]
    /\ remoteCalls = <<>>
    /\ results = <<>>
    /\ session_id \in [Providers -> {NoToken, "s1"}]
    /\ \A p \in Providers : p \notin SeqToSet(mcp_clients) => session_id[p] = NoToken
    /\ last_token = session_id
    /\ init_outcome = [p \in Providers |-> "never"]

(***************************************************************************)
(* Connection manager.                                                     *)
(***************************************************************************)
\* del self.active_connections[client_id]: KeyError when the key is absent.
Del(conns, c) ==
    IF c \in conns
    THEN [conns |-> conns \ {c}, raised |-> FALSE]
    ELSE [conns |-> conns, raised |-> TRUE]

\* A disconnect that deletes without looking.
DisconnectCall_Unguarded(conns, c) == Del(conns, c)

\* disconnect(client_id): delete the record if present; the table it leaves
\* and whether it raised.
DisconnectCall(conns, c) ==
    IF c \in conns THEN Del(conns, c) ELSE [conns |-> conns, raised |-> FALSE]

\* A disconnect that empties the table.
Disconnect_ClearsAll(conns, c) == {}

\* The connection table after disconnect(client_id).
Disconnect(conns, c) == DisconnectCall(conns, c).conns

\* websocket_endpoint: connect() accepts and registers, then the read loop.
Connect(c) ==
    /\ pc[c] = "none"
    /\ active_connections' = active_connections \cup {c}
    /\ open' = [open EXCEPT ![c] = TRUE]
    /\ pc' = [pc EXCEPT ![c] = "recv"]
    /\ UNCHANGED <<config, capabilities, inbound, turn, sent, remoteCalls, results, clientState>>

\* The client goes away: later receives and sends on the channel raise.
ClientDrop(c) ==
    /\ open[c]
    /\ pc[c] \notin {"none", "closed"}
    /\ open' = [open EXCEPT ![c] = FALSE]
    /\ UNCHANGED <<config, capabilities, active_connections, pc, inbound, turn,
                   sent, remoteCalls, results, clientState>>

\* An exception leaves the read loop (lines 135-144): disconnect, and the
\* endpoint returns.  n sends failed on the way; t is the turn's record.
EndLoop(c, t, n) ==
    /\ active_connections' = Disconnect(active_connections, c)
    /\ open' = [open EXCEPT ![c] = FALSE]
    /\ pc' = [pc EXCEPT ![c] = "closed"]
    /\ turn' = [turn EXCEPT ![c] = [t EXCEPT !.failed_sends = @ + n]]
    /\ UNCHANGED sent

\* data = await websocket.receive_text()
Receive(c) ==
    /\ pc[c] = "recv"
    /\ IF open[c]
       THEN /\ \E f \in Frames : inbound' = [inbound EXCEPT ![c] = f]
            /\ pc' = [pc EXCEPT ![c] = "parse"]
            /\ turn' = [turn EXCEPT ![c] = EmptyTurn]
            /\ sent' = [sent EXCEPT ![c] = <<>>]
            /\ UNCHANGED <<active_connections, open>>
       ELSE /\ EndLoop(c, turn[c], 0)
            /\ UNCHANGED inbound
    /\ UNCHANGED <<config, capabilities, remoteCalls, results, clientState>>

\* An except branch that answers with the error twice.
LocalErrorMsgs_Twice(kind) == << LocalErrorMsg(kind), LocalErrorMsg(kind) >>

\* The messages handle_message answers a rejected frame with.
LocalErrorMsgs(kind) == << LocalErrorMsg(kind) >>

\* await websocket.send_text(json.dumps(error_response)) in an except branch
\* of the read loop; a failing send leaves the loop.
LocalRespond(c, kind) ==
    IF open[c]
    THEN /\ sent' = [sent EXCEPT ![c] = @ \o LocalErrorMsgs(kind)]
         /\ pc' = [pc EXCEPT ![c] = "recv"]
         /\ UNCHANGED <<active_connections, open, turn>>
    ELSE EndLoop(c, turn[c], 1)

\* json.loads, ClientMessage(**message_data) and the except branches.
Parse(c) ==
    /\ pc[c] = "parse"
    /\ LET f == inbound[c] IN
       IF JsonLoads(f) = "JSONDecodeError" THEN LocalRespond(c, "invalid_json")
       ELSE IF ValidateClientMessage(f) = "ValidationError"
            THEN LocalRespond(c, "invalid_format")
       ELSE IF ValidateClientMessage(f) = "TypeError"
            THEN EndLoop(c, turn[c], 0)
       ELSE /\ turn' = [turn EXCEPT ![c] =
                          [EmptyTurn EXCEPT !.request_id = f.request_id,
                                            !.text = f.text]]
            /\ pc' = [pc EXCEPT ![c] = "tools"]
            /\ UNCHANGED <<active_connections, open, sent>>
    /\ UNCHANGED <<config, capabilities, inbound, remoteCalls, results, clientState>>

(***************************************************************************)
(* Sends inside a turn.                                                    *)
(***************************************************************************)
\* A turn-boundary handler that logs and sends nothing.
ChatErrorMsgs_Swallowed(rid) == <<>>

\* The turn-boundary handler of _handle_chat (lines 265-279): what it sends.
ChatErrorMsgs(rid) == << ChatErrorMsg(rid) >>

\* An exception reached _handle_chat's except branch while handling turn t:
\* the error response is sent; if that send fails the read loop ends.
\* An except branch that sends the error and then drops the connection.
SendChatError_Disconnects(c, t) ==
    LET t1 == [t EXCEPT !.produced = @ \o ChatErrorMsgs(t.request_id)] IN
    IF open[c]
    THEN /\ sent' = [sent EXCEPT ![c] = @ \o ChatErrorMsgs(t.request_id)]
         /\ pc' = [pc EXCEPT ![c] = "closed"]
         /\ turn' = [turn EXCEPT ![c] = t1]
         /\ active_connections' = Disconnect(active_connections, c)
         /\ open' = [open EXCEPT ![c] = FALSE]
    ELSE EndLoop(c, t1, 1)

SendChatError(c, t) ==
    LET t1 == [t EXCEPT !.produced = @ \o ChatErrorMsgs(t.request_id)] IN
    IF open[c]
    THEN /\ sent' = [sent EXCEPT ![c] = @ \o ChatErrorMsgs(t.request_id)]
         /\ pc' = [pc EXCEPT ![c] = "recv"]
         /\ turn' = [turn EXCEPT ![c] = t1]
         /\ UNCHANGED <<active_connections, open>>
    ELSE EndLoop(c, t1, 1)

\* await websocket.send_text(response.model_dump_json()) for a message m the
\* adapter yielded (line 214).  tOk is the turn once the generator is resumed
\* up to nextpc, tFail the turn if it is never resumed: a failing send raises
\* into the except branch, whose own send fails too.  produced records what
\* the adapter yielded and the except branch built, in that order.
\* A write path that puts the message before those already written.
SendInTurn_Prepends(c, m, tOk, tFail, nextpc) ==
    IF open[c]
    THEN /\ sent' = [sent EXCEPT ![c] = <<m>> \o @]
         /\ pc' = [pc EXCEPT ![c] = nextpc]
         /\ turn' = [turn EXCEPT ![c] = [tOk EXCEPT !.produced = Append(@, m)]]
         /\ UNCHANGED <<active_connections, open>>
    ELSE EndLoop(c, [tFail EXCEPT !.produced =
                        Append(@, m) \o ChatErrorMsgs(tFail.request_id)], 2)

SendInTurn(c, m, tOk, tFail, nextpc) ==
    IF open[c]
    THEN /\ sent' = [sent EXCEPT ![c] = Append(@, m)]
         /\ pc' = [pc EXCEPT ![c] = nextpc]
         /\ turn' = [turn EXCEPT ![c] = [tOk EXCEPT !.produced = Append(@, m)]]
         /\ UNCHANGED <<active_connections, open>>
    ELSE EndLoop(c, [tFail EXCEPT !.produced =
                        Append(@, m) \o ChatErrorMsgs(tFail.request_id)], 2)

(***************************************************************************)
(* The tool-server client: MCPClient.call_tool and _send_request           *)
(* (mcp/client.py, lines 111-195).                                         *)
(***************************************************************************)
\* JSON null / Python None, a member missing from an object, a value that is
\* not a string.
Null == "<null>"

Absent == "<absent>"

NotAString == "<number>"

\* What the transport and the provider do with one request: the connection is
\* refused, the request times out, the status is not a success, the body is
\* not a JSON-RPC response; or the body the provider answers with.
TransportFailures == {"refused", "timeout", "bad_status", "unparsable"}

Bodies ==
    {"result", "result_and_error", "error_message", "error_empty_message",
     "error_no_message", "error_bad_message", "error_null_message",
     "error_empty", "no_result_no_error"}

Responses == TransportFailures \cup Bodies

\* The error member of a response: present or not, an empty object or not,
\* and its message member.
ErrorObject(present, empty, message) ==
    [present |-> present, empty |-> empty, message |-> message]

NoError == ErrorObject(FALSE, TRUE, Absent)

\* MCPResponse(result, error).
MCPResponse(result, error) == [result |-> result, error |-> error]

\* MCPResponse(**response.json()) for each body.
ParseBody(b) ==
    IF b = "result" THEN MCPResponse("output", NoError)
    ELSE IF b = "result_and_error"
         THEN MCPResponse("output", ErrorObject(TRUE, FALSE, "boom"))
    ELSE IF b = "error_message" THEN MCPResponse(Null, ErrorObject(TRUE, FALSE, "boom"))
    ELSE IF b = "error_empty_message" THEN MCPResponse(Null, ErrorObject(TRUE, FALSE, ""))
    ELSE IF b = "error_no_message" THEN MCPResponse(Null, ErrorObject(TRUE, FALSE, Absent))
    ELSE IF b = "error_bad_message"
         THEN MCPResponse(Null, ErrorObject(TRUE, FALSE, NotAString))
    ELSE IF b = "error_null_message" THEN MCPResponse(Null, ErrorObject(TRUE, FALSE, Null))
    ELSE IF b = "error_empty" THEN MCPResponse(Null, ErrorObject(TRUE, TRUE, Absent))
    ELSE MCPResponse(Null, NoError)

\* _send_request: client.post, raise_for_status and response.json() raise on
\* a transport failure; otherwise the parsed response is returned.
SendRequest(resp) ==
    IF resp \in TransportFailures
    THEN [raised |-> TRUE, exception |-> resp, response |-> MCPResponse(Null, NoError)]
    ELSE [raised |-> FALSE, exception |-> "", response |-> ParseBody(resp)]

\* The header a provider may put on its answer: none when no answer arrives.
TokensOn(resp) ==
    IF resp \in {"refused", "timeout"} THEN {NoToken} ELSE {NoToken} \cup Tokens

\* The Mcp-Session-Id header of the next request (lines 175-177): the stored
\* id, if there is one.
HeaderSent(session) == IF session # NoToken THEN session ELSE NoToken

\* _session_id after a request answered by resp carrying tok (lines 179-193):
\* raise_for_status() comes before the header is read.
SessionAfter(session, resp, tok) ==
    IF resp \in {"refused", "timeout", "bad_status"} \/ tok = NoToken
    THEN session
    ELSE tok

\* The token the provider issued last, after its answer resp carrying tok.
IssuedAfter(last, resp, tok) == IF tok = NoToken THEN last ELSE tok

\* The request made of provider p is answered by resp carrying tok.
Requested(p, resp, tok) ==
    /\ session_id' = [session_id EXCEPT ![p] = SessionAfter(@, resp, tok)]
    /\ last_token' = [last_token EXCEPT ![p] = IssuedAfter(@, resp, tok)]

\* `if response.result:` on what _send_request returned.
HasResult(resp) ==
    /\ ~SendRequest(resp).raised
    /\ SendRequest(resp).response.result # Null

\* `if response.error:` - a dict is true unless it is empty.
Truthy(error) == error.present /\ ~error.empty

\* response.error.get("message", default)
GetMessage(error, default) == IF error.message = Absent THEN default ELSE error.message

\* MCPToolResult(tool_call_id, output, error), and whether call_tool raised
\* instead of returning it.
MCPToolResult(id, output, err) ==
    [tool_call_id |-> id, output |-> output, error |-> err, raised |-> FALSE]

\* A call_tool without its except branch.
CallTool_Propagates(call, resp) ==
    LET r == SendRequest(resp) IN
    IF r.raised
    THEN [tool_call_id |-> call.id, output |-> Null, error |-> Null, raised |-> TRUE]
    ELSE IF Truthy(r.response.error)
         THEN MCPToolResult(call.id, Null, GetMessage(r.response.error, "Unknown error"))
         ELSE MCPToolResult(call.id, r.response.result, Null)

\* call_tool (lines 111-152).  error: str | None rejects a message that is
\* not a string; that ValidationError is raised inside the try as well.
CallTool(call, resp) ==
    LET r == SendRequest(resp) IN
    IF r.raised THEN MCPToolResult(call.id, Null, r.exception)
    ELSE IF Truthy(r.response.error)
         THEN LET msg == GetMessage(r.response.error, "Unknown error") IN
              IF msg = NotAString
              THEN MCPToolResult(call.id, Null, "ValidationError")
              ELSE MCPToolResult(call.id, Null, msg)
         ELSE MCPToolResult(call.id, r.response.result, Null)

(***************************************************************************)
(* Tool listing for a turn (_handle_chat, lines 160-204).                  *)
(***************************************************************************)
\* MCPClient.to_openai_tools: the cached tools under "{provider}_{tool}".
ToOpenAITools(caps, p) ==
    IF ~caps[p].cached THEN <<>>
    ELSE [i \in 1..Len(caps[p].tools) |-> Namespaced(p, caps[p].tools[i])]

\* for client in self.mcp_clients: tools.extend(client.to_openai_tools())
RemoteTools(caps, clients) ==
    Concat([i \in 1..Len(clients) |-> ToOpenAITools(caps, clients[i])], 1)

\* The loop over combined_tools: a tool is added under its bare name unless a
\* name already listed ends with "_{tool.name}".
RECURSIVE AddCombined(_, _, _)
AddCombined(tools, combined, i) ==
    IF i > Len(combined) THEN tools
    ELSE IF \E n \in 1..Len(tools) : EndsWithUnderscored(tools[n], combined[i])
         THEN AddCombined(tools, combined, i + 1)
         ELSE AddCombined(Append(tools, combined[i]), combined, i + 1)

\* ToolRegistry.get_tools(): the names of the registered definitions.
RegistryTools == LocalTools

\* ToolRegistry.get_tool(name): whether a handler is registered under name.
RegistryHas(name) == \E i \in 1..Len(LocalTools) : LocalTools[i] = name

\* The synchronous start of _handle_chat: the tool list before get_tools().
ListedBeforeGetTools(enabled, clients, caps) ==
    IF ~enabled THEN <<>>
    ELSE IF clients # <<>> THEN RemoteTools(caps, clients)
    ELSE RegistryTools

\* MCPClient.get_tools() awaits initialize() when nothing is cached.
NeedsInitialize(enabled, clients, caps) ==
    enabled /\ clients # <<>> /\ ~caps[clients[1]].cached

ListTools(c) ==
    /\ pc[c] = "tools"
    /\ LET t == turn[c]
           listed == ListedBeforeGetTools(mcp_enabled, mcp_clients, capabilities)
       IN IF NeedsInitialize(mcp_enabled, mcp_clients, capabilities)
          THEN /\ turn' = [turn EXCEPT ![c] = [t EXCEPT !.tools = listed]]
               /\ pc' = [pc EXCEPT ![c] = "init"]
          ELSE /\ turn' = [turn EXCEPT ![c] = [t EXCEPT !.tools =
                    IF mcp_enabled /\ mcp_clients # <<>>
                    THEN AddCombined(listed, capabilities[mcp_clients[1]].tools, 1)
                    ELSE listed]]
               /\ pc' = [pc EXCEPT ![c] = "start"]
    /\ UNCHANGED <<config, capabilities, active_connections, open, inbound, sent,
                   remoteCalls, results, clientState>>

\* A refresh that extends the cached list in place, seen before its last
\* append.
Refreshed_InPlace(caps, p, l) ==
    [caps EXCEPT ![p] = Capabilities(SubSeq(l, 1, Len(l) - 1))]

\* self._capabilities = MCPCapabilities(tools=tools, ...) (lines 78-85): the
\* list is built aside and the attribute is rebound to the new object.
Refreshed(caps, p, l) == [caps EXCEPT ![p] = Capabilities(l)]

\* An initialize() that leaves an empty capability set behind when it does
\* not reach the assignment.
Unrefreshed_CachesEmpty(caps, p) == [caps EXCEPT ![p] = Capabilities(<<>>)]

\* The caches after a step of initialize() that does not reach the assignment
\* of lines 82-85 (a request raised, a response had no result, or the second
\* request is still to be made): _capabilities is written nowhere else.
Unrefreshed(caps, p) == caps

\* get_tools() after its initialize() returned (line 109): what is cached now.
CachedTools(caps, p) == IF caps[p].cached THEN caps[p].tools ELSE <<>>

\* The turn goes on from get_tools() with the combined tools added.
FinishListing(c, t, combined) ==
    /\ turn' = [turn EXCEPT ![c] = [t EXCEPT !.tools = AddCombined(t.tools, combined, 1)]]
    /\ pc' = [pc EXCEPT ![c] = "start"]
    /\ UNCHANGED <<sent, active_connections, open>>

\* MCPClient.initialize() awaited by get_tools() of the first client, up to
\* the answer to its "initialize" request (lines 61-74): the request raises
\* (transport error, bad status) and initialize re-raises; the response has no
\* result and initialize returns with nothing done; or tools/list is requested.
Initialize(c) ==
    /\ pc[c] = "init"
    /\ LET t == turn[c]
           p == mcp_clients[1]
       IN \E resp \in Responses : \E tok \in TokensOn(resp) :
            /\ Requested(p, resp, tok)
            /\ capabilities' = Unrefreshed(capabilities, p)
            /\ IF SendRequest(resp).raised
               THEN /\ SendChatError(c, t)
                    /\ init_outcome' = [init_outcome EXCEPT ![p] = "raised"]
               ELSE IF ~HasResult(resp)
               THEN /\ FinishListing(c, t, CachedTools(capabilities, p))
                    /\ init_outcome' = [init_outcome EXCEPT ![p] = "returned"]
               ELSE /\ pc' = [pc EXCEPT ![c] = "init_list"]
                    /\ UNCHANGED <<init_outcome, turn, sent, active_connections, open>>
    /\ UNCHANGED <<config, inbound, remoteCalls, results>>

\* initialize() from the answer to its "tools/list" request (lines 76-98): it
\* raises, returns with nothing done, or rebinds the cache to the new list.
InitializeList(c) ==
    /\ pc[c] = "init_list"
    /\ LET t == turn[c]
           p == mcp_clients[1]
       IN \E resp \in Responses : \E tok \in TokensOn(resp) :
            /\ Requested(p, resp, tok)
            /\ IF SendRequest(resp).raised
               THEN /\ SendChatError(c, t)
                    /\ init_outcome' = [init_outcome EXCEPT ![p] = "raised"]
                    /\ capabilities' = Unrefreshed(capabilities, p)
               ELSE IF ~HasResult(resp)
               THEN /\ FinishListing(c, t, CachedTools(capabilities, p))
                    /\ init_outcome' = [init_outcome EXCEPT ![p] = "returned"]
                    /\ capabilities' = Unrefreshed(capabilities, p)
               ELSE \E l \in ToolLists(p) :
                      /\ capabilities' = Refreshed(capabilities, p, l)
                      /\ FinishListing(c, t, l)
                      /\ init_outcome' = [init_outcome EXCEPT ![p] = "returned"]
    /\ UNCHANGED <<config, inbound, remoteCalls, results>>

(***************************************************************************)
(* OpenAIAdapter.generate_response.                                        *)
(***************************************************************************)
\* A processing status that echoes the request id instead of the text.
FirstYield_EchoesId(rid, text) == ProcessingMsg(rid, rid)

\* The first message the generator yields (lines 186-194).
FirstYield(rid, text) == ProcessingMsg(rid, text)

Processing(c) ==
    /\ pc[c] = "start"
    /\ LET t == turn[c] IN
       SendInTurn(c, FirstYield(t.request_id, t.text), t, t, "flow")
    /\ UNCHANGED <<config, capabilities, inbound, remoteCalls, results, clientState>>

\* use_mcp=bool(tools); "if not use_mcp or not tools" selects the standard flow.
\* A selection that takes the two-phase flow whatever the tool list.
UsesMcpFlow_Always(tools) == TRUE

UsesMcpFlow(tools) == tools # <<>>

\* The tools the standard flow attaches to its backend call: "if tools:"
\* (lines 293-295), none for an empty or absent list.
StdAttached(tools) == IF tools # <<>> THEN tools ELSE <<>>

\* A generator that goes on to its completion status after the error.
AfterAdapterError_Completes == "complete"

\* Where the generator stands after its except branch yielded the error.
AfterAdapterError == "recv"

\* An except branch that yields the error and goes back to issue the failed
\* call again.
AdapterError_Retries(c, t) ==
    LET t1 == [t EXCEPT !.backend_failed = TRUE] IN
    SendInTurn(c, AdapterErrorMsg(t.request_id), t1, t1, pc[c])

\* except Exception (lines 237-249) after a backend call of turn t raised:
\* one error status, then the generator ends.
AdapterError(c, t) ==
    LET t1 == [t EXCEPT !.backend_failed = TRUE] IN
    SendInTurn(c, AdapterErrorMsg(t.request_id), t1, t1, AfterAdapterError)

\* The completion status (lines 230-235), then the generator ends.
Complete(c) ==
    /\ pc[c] = "complete"
    /\ LET t == turn[c] IN
       SendInTurn(c, CompleteMsg(t.request_id), t, t, "recv")
    /\ UNCHANGED <<config, capabilities, inbound, remoteCalls, results, clientState>>

\* A backend call is issued.
Issued(t) == [t EXCEPT !.backend_calls = @ + 1]

\* A flow that returns to the read loop after the content chunk without the
\* completion status.
NonStreamResponse_NoComplete(c, t, hasContent) ==
    IF hasContent
    THEN SendInTurn(c, TextChunk(t.request_id, <<"content">>, NoMeta), t, t, "recv")
    ELSE SendInTurn(c, CompleteMsg(t.request_id), t, t, "recv")

\* What follows a response without content: nothing is yielded for it, the
\* flow returns and the completion status is the next message.
NonStreamResponse(c, t, hasContent) ==
    IF hasContent
    THEN SendInTurn(c, TextChunk(t.request_id, <<"content">>, NoMeta), t, t, "complete")
    ELSE SendInTurn(c, CompleteMsg(t.request_id), t, t, "recv")

\* _handle_standard_flow: the backend call (lines 282-342).
StdCall(c) ==
    /\ pc[c] = "flow"
    /\ ~UsesMcpFlow(turn[c].tools)
    /\ LET t == [Issued(turn[c]) EXCEPT !.flow = "standard",
                                        !.attached = StdAttached(turn[c].tools)] IN
         \/ AdapterError(c, t)
         \/ /\ stream
            /\ pc' = [pc EXCEPT ![c] = "std_stream"]
            /\ turn' = [turn EXCEPT ![c] = t]
            /\ UNCHANGED <<sent, active_connections, open>>
         \/ /\ ~stream
            /\ \E hasContent \in BOOLEAN : NonStreamResponse(c, t, hasContent)
    /\ UNCHANGED <<config, capabilities, inbound, remoteCalls, results, clientState>>

\* The tool call a tool-call delta of the stream names: the k-th of the turn.
\* The chunk's data is its dump, {index, id, function: {name, arguments}, type}.
DeltaCall(k, name) == [id |-> CallId(k), name |-> name, args_ok |-> TRUE]

\* async for chunk in stream (lines 302-327): a content delta, a tool-call
\* delta, the end of the stream, or a failure of the stream.
StdStream(c) ==
    /\ pc[c] = "std_stream"
    /\ LET t == turn[c]
           t1 == [t EXCEPT !.nchunks = @ + 1]
       IN \/ /\ t.nchunks < MaxChunks
             /\ SendInTurn(c, TextChunk(t.request_id, <<"content">>, NoMeta),
                           t1, t1, "std_stream")
          \/ /\ t.nchunks < MaxChunks
             /\ \E name \in ProposedNames :
                  LET t2 == [t1 EXCEPT !.tool_deltas = @ + 1,
                                       !.delta = DeltaCall(t.tool_deltas + 1, name)]
                  IN SendInTurn(c, ToolCallChunk(t.request_id), t2, t2, "tool_call")
          \/ SendInTurn(c, CompleteMsg(t.request_id), t, t, "recv")
          \/ AdapterError(c, t)
    /\ UNCHANGED <<config, capabilities, inbound, remoteCalls, results, clientState>>

\* The server's handling of a tool_call chunk (lines 217-263).  The chunk's
\* data is the dump of the backend's delta, whose name sits under "function":
\* tool_call_data["name"] raises KeyError in the first iteration over the
\* clients; with no client the loop body never runs.
HandleToolCall(c) ==
    /\ pc[c] = "tool_call"
    /\ IF mcp_clients # <<>>
       THEN SendChatError(c, turn[c])
       ELSE /\ pc' = [pc EXCEPT ![c] = "std_stream"]
            /\ UNCHANGED <<sent, turn, active_connections, open>>
    /\ UNCHANGED <<config, capabilities, inbound, remoteCalls, results, clientState>>

(***************************************************************************)
(* The tool dispatcher, OpenAIAdapter.execute_mcp_tool (lines 41-162).     *)
(***************************************************************************)
\* A tool call as the backend proposes it: id, function name, and whether the
\* function arguments string is valid JSON.
ToolCall(id, name, args_ok) == [id |-> id, name |-> name, args_ok |-> args_ok]

\* ToolResult(status, result, error).
ToolResult(status, result, err) == [status |-> status, result |-> result, error |-> err]

\* What the environment decides about a handler that runs: it returns an
\* output, returns a result with error set, raises, or does not finish within
\* tool_timeout.
HandlerOutcomes == {"output", "error_result", "raises", "timeout"}

\* client.execute_tool(mcp_tool_call) (line 75): MCPClient defines initialize,
\* get_tools, call_tool, _send_request, close and to_openai_tools; the
\* attribute lookup raises AttributeError before any request is made.
ClientExecuteTool(p, call) == [raised |-> TRUE, error |-> "AttributeError"]

\* for client in mcp_clients (lines 72-95): the error the loop ends with.
RECURSIVE TryClients(_, _, _, _)
TryClients(call, clients, i, last_error) ==
    IF i > Len(clients)
    THEN ToolResult("error", "", IF last_error # "" THEN last_error ELSE "not_found")
    ELSE TryClients(call, clients, i + 1, ClientExecuteTool(clients[i], call).error)

\* Whether the dispatcher runs a local handler for the call: only with no
\* tool-server client, and when the registry knows the name (lines 96-119).
RunsLocalHandler(call, clients) ==
    call.args_ok /\ clients = <<>> /\ RegistryHas(call.name)

\* The result execute_mcp_tool returns when it returns (o: the handler's
\* outcome, read only if a handler runs).
\* A dispatcher without its outer try/except (lines 54, 144-162): a failure
\* to parse the arguments or in the handler leaves it as an exception.
ExecuteMcpTool_Unguarded(call, clients, o) ==
    IF ~call.args_ok THEN ToolResult("raised", "", "JSONDecodeError")
    ELSE IF clients # <<>> THEN TryClients(call, clients, 1, "")
    ELSE IF RegistryHas(call.name)
         THEN IF o = "output" THEN ToolResult("success", "output", "")
              ELSE IF o = "error_result" THEN ToolResult("error", "", "handler_error")
              ELSE ToolResult("raised", "", "raised")
         ELSE ToolResult("error", "", "not_found")

\* json.loads of the arguments (line 56) comes first and its failure is caught
\* by the outer except Exception (lines 153-162), as is a handler that raises.
\* A status "raised" stands for an exception leaving execute_mcp_tool.
ExecuteMcpTool(call, clients, o) ==
    IF ~call.args_ok THEN ToolResult("error", "", "JSONDecodeError")
    ELSE IF clients # <<>> THEN TryClients(call, clients, 1, "")
    ELSE IF RegistryHas(call.name)
         THEN IF o = "output" THEN ToolResult("success", "output", "")
              ELSE IF o = "error_result" THEN ToolResult("error", "", "handler_error")
              ELSE ToolResult("error", "", "raised")
         ELSE ToolResult("error", "", "not_found")

\* The handler executions a dispatch starts: [target, name, id].
Executions(call, clients) ==
    IF RunsLocalHandler(call, clients)
    THEN << [target |-> "local", name |-> call.name, id |-> call.id] >>
    ELSE <<>>

\* The outcomes the environment can give a dispatch.
PossibleOutcomes(call, clients) ==
    IF RunsLocalHandler(call, clients) THEN HandlerOutcomes ELSE {"returns"}

(***************************************************************************)
(* _handle_mcp_flow (lines 344-525).                                       *)
(***************************************************************************)
ConvMsg(role, id, shape, status, result, err) ==
    [role |-> role, tool_call_id |-> id,
     content |-> [shape |-> shape, status |-> status, result |-> result, error |-> err]]

\* second_phase_messages as first built (lines 417-421).
InitialConversation ==
    << ConvMsg("system", "", "text", "", "", ""),
       ConvMsg("user", "", "text", "", "", ""),
       ConvMsg("assistant", "", "text", "", "", "") >>

\* The tool-role message of a returned result (lines 450-456).
ResultMessage(call, r) ==
    ConvMsg("tool", call.id, "ToolResult", r.status, r.result, r.error)

\* The tool-role message of the except branch (lines 468-474): {"error": str(e)}.
ErrorMessage(call, e) == ConvMsg("tool", call.id, "error", "", "", e)

\* The proposals a discovery response may carry: 1..MaxCalls calls, the k-th
\* with id CallId(k).
Proposals ==
    UNION { { [k \in 1..n |-> ToolCall(CallId(k), names[k], oks[k])] :
                names \in [1..n -> ProposedNames], oks \in [1..n -> BOOLEAN] } :
            n \in 1..MaxCalls }

\* The text chunk sent for a discovery response without tool calls.
DiscoveryText(hasContent) ==
    IF hasContent THEN <<"content">> ELSE <<"No response generated">>

\* A flow that goes on to the final phase after the discovery text.
AfterDiscoveryText_FinalPhase == "final_notice"

\* Where the flow stands after yielding the text of a discovery response
\* without tool calls: "return" (line 399), so the completion status is next.
AfterDiscoveryText == "complete"

McpStart(c) ==
    /\ pc[c] = "flow"
    /\ UsesMcpFlow(turn[c].tools)
    /\ LET t == [turn[c] EXCEPT !.flow = "two_phase"] IN
       SendInTurn(c, TextChunk(t.request_id, <<"starting">>, Meta("phase", "start", 0)),
                  t, t, "discovery")
    /\ UNCHANGED <<config, capabilities, inbound, remoteCalls, results, clientState>>

\* An announce chunk that reports one call whatever the response proposed.
Announce_CountsOne(rid, n) ==
    TextChunk(rid, <<"executing">>, Meta("phase", "tool_execution", 1))

\* The announce chunk (lines 402-414).
Announce(rid, n) ==
    TextChunk(rid, <<"executing">>, Meta("phase", "tool_execution", n))

\* The first, non-streaming backend call and what follows it up to the next
\* yield (lines 384-421).
Discovery(c) ==
    /\ pc[c] = "discovery"
    /\ LET t == [Issued(turn[c]) EXCEPT !.attached = turn[c].tools] IN
         \/ AdapterError(c, t)
         \/ \E hasContent \in BOOLEAN :
              SendInTurn(c, TextChunk(t.request_id, DiscoveryText(hasContent), NoMeta),
                         t, t, AfterDiscoveryText)
         \/ \E calls \in Proposals :
              LET t1 == [t EXCEPT !.calls = calls, !.conv = InitialConversation] IN
              SendInTurn(c, Announce(t.request_id, Len(calls)), t1, t1, "dispatch")
    /\ UNCHANGED <<config, capabilities, inbound, remoteCalls, results, clientState>>

\* Where the flow goes once call k of n is handled.
AfterCall(k, n) == IF k < n THEN "dispatch" ELSE "final_notice"

\* An except branch that keys the error message to the first proposed call.
OnTimeout_FirstId(t, call) ==
    [t EXCEPT !.conv = Append(@, [role |-> "tool", tool_call_id |-> t.calls[1].id,
                                  content |-> [shape |-> "error", status |-> "",
                                               result |-> "", error |-> "TimeoutError"]]),
              !.outcomes = Append(@, "timeout")]

\* The turn after a dispatch that timed out: only the error message is added.
OnTimeout(t, call) ==
    [t EXCEPT !.conv = Append(@, ErrorMessage(call, "TimeoutError")),
              !.outcomes = Append(@, "timeout")]

\* The turn after an exception other than a timeout left the dispatch: the
\* same except branch (lines 458-474), with str(e) as the error.
OnRaised(t, call, e, o) ==
    [t EXCEPT !.conv = Append(@, ErrorMessage(call, e)),
              !.outcomes = Append(@, o)]

\* A loop that appends the tool-role message of successful results only.
OnResult_SkipsErrors(t, call, r, o) ==
    [t EXCEPT !.conv = IF r.status = "success" THEN Append(@, ResultMessage(call, r))
                       ELSE @,
              !.outcomes = Append(@, o)]

\* The turn after a dispatch that returned r, once the tool_result chunk is sent.
OnResult(t, call, r, o) ==
    [t EXCEPT !.conv = Append(@, ResultMessage(call, r)),
              !.outcomes = Append(@, o)]

\* One iteration of the loop over the proposed calls (lines 424-474):
\* asyncio.wait_for(execute_mcp_tool(...)), then the tool_result chunk and the
\* tool-role message, or the except branch.
Dispatch(c) ==
    /\ pc[c] = "dispatch"
    /\ LET t == turn[c]
           k == Len(t.outcomes) + 1
           call == t.calls[k]
           t0 == [t EXCEPT !.executed = @ \o Executions(call, mcp_clients)]
       IN \E o \in PossibleOutcomes(call, mcp_clients) :
            IF o = "timeout"
            THEN /\ turn' = [turn EXCEPT ![c] = OnTimeout(t0, call)]
                 /\ pc' = [pc EXCEPT ![c] = AfterCall(k, Len(t.calls))]
                 /\ UNCHANGED <<sent, active_connections, open>>
            ELSE LET r == ExecuteMcpTool(call, mcp_clients, o) IN
                 IF r.status = "raised"
                 THEN /\ turn' = [turn EXCEPT ![c] = OnRaised(t0, call, r.error, o)]
                      /\ pc' = [pc EXCEPT ![c] = AfterCall(k, Len(t.calls))]
                      /\ UNCHANGED <<sent, active_connections, open>>
                 ELSE SendInTurn(c, ToolResultChunk(t.request_id, call.name, call.id),
                                 OnResult(t0, call, r, o), t0, AfterCall(k, Len(t.calls)))
    /\ UNCHANGED <<config, capabilities, inbound, remoteCalls, results, clientState>>

FinalNotice(c) ==
    /\ pc[c] = "final_notice"
    /\ LET t == turn[c] IN
       SendInTurn(c, TextChunk(t.request_id, <<"getting final">>,
                               Meta("phase", "final_response", 0)),
                  t, t, "final")
    /\ UNCHANGED <<config, capabilities, inbound, remoteCalls, results, clientState>>

\* The second backend call (lines 488-525).
FinalCall(c) ==
    /\ pc[c] = "final"
    /\ LET t == Issued(turn[c]) IN
         \/ AdapterError(c, t)
         \/ /\ stream
            /\ pc' = [pc EXCEPT ![c] = "final_stream"]
            /\ turn' = [turn EXCEPT ![c] = t]
            /\ UNCHANGED <<sent, active_connections, open>>
         \/ /\ ~stream
            /\ \E hasContent \in BOOLEAN : NonStreamResponse(c, t, hasContent)
    /\ UNCHANGED <<config, capabilities, inbound, remoteCalls, results, clientState>>

\* async for chunk in stream (lines 499-510).
FinalStream(c) ==
    /\ pc[c] = "final_stream"
    /\ LET t == turn[c]
           t1 == [t EXCEPT !.nchunks = @ + 1]
       IN \/ /\ t.nchunks < MaxChunks
             /\ SendInTurn(c, TextChunk(t.request_id, <<"content">>, NoMeta),
                           t1, t1, "final_stream")
          \/ SendInTurn(c, CompleteMsg(t.request_id), t, t, "recv")
          \/ AdapterError(c, t)
    /\ UNCHANGED <<config, capabilities, inbound, remoteCalls, results, clientState>>

(***************************************************************************)
(* The server's loop over an arbitrary LLMAdapter (adapters/base.py):      *)
(* generate_response is any asynchronous generator of ServerMessage.       *)
(***************************************************************************)
\* The messages an adapter may yield for the request rid.
Yieldable(rid, text) ==
    { ProcessingMsg(rid, text), TextChunk(rid, <<"content">>, NoMeta),
      ToolCallChunk(rid), CompleteMsg(rid), AdapterErrorMsg(rid) }

\* One iteration of "async for response in generate_response(...)" of
\* _handle_chat (lines 207-214): whatever the adapter yields is written to the
\* socket; a tool_call chunk is then handled by the server (lines 217-263).
AdapterYield(c) ==
    /\ pc[c] \in {"start", "yield"}
    /\ turn[c].nchunks < MaxYields
    /\ LET t == [turn[c] EXCEPT !.nchunks = @ + 1] IN
       \E m \in Yieldable(t.request_id, t.text) :
         SendInTurn(c, m, t, t, IF m.type = "tool_call" THEN "yielded_tool_call" ELSE "yield")
    /\ UNCHANGED <<config, capabilities, inbound, remoteCalls, results, clientState>>

\* The server's handling of a tool_call chunk of an arbitrary adapter, as in
\* HandleToolCall; with no client the loop asks the generator for more.
YieldedToolCall(c) ==
    /\ pc[c] = "yielded_tool_call"
    /\ IF mcp_clients # <<>>
       THEN SendChatError(c, turn[c])
       ELSE /\ pc' = [pc EXCEPT ![c] = "yield"]
            /\ UNCHANGED <<sent, turn, active_connections, open>>
    /\ UNCHANGED <<config, capabilities, inbound, remoteCalls, results, clientState>>

\* The generator ends (the loop is left, line 263) or raises (the except
\* branch, lines 265-279).
AdapterEnd(c) ==
    /\ pc[c] \in {"start", "yield"}
    /\ \/ /\ pc' = [pc EXCEPT ![c] = "recv"]
          /\ UNCHANGED <<sent, turn, active_connections, open>>
       \/ SendChatError(c, turn[c])
    /\ UNCHANGED <<config, capabilities, inbound, remoteCalls, results, clientState>>

(***************************************************************************)
(* The tool-server clients called directly.                                *)
(***************************************************************************)
\* A tools/call request as a provider receives it from MCPClient.call_tool.
RemoteCall(p, name, id) == [provider |-> p, name |-> name, id |-> id]

\* One call of call_tool on the client of provider p.
CallToolStep(p) ==
    /\ Len(remoteCalls) < MaxRemoteCalls
    /\ \E name \in { <<"web">>, <<"nope">> }, resp \in Responses :
         LET call == ToolCall(CallId(Len(remoteCalls) + 1), name, TRUE) IN
         /\ remoteCalls' = Append(remoteCalls, RemoteCall(p, name, call.id))
         /\ results' = Append(results, [call |-> call, response |-> resp,
                                        result |-> CallTool(call, resp)])
         /\ \E tok \in TokensOn(resp) : Requested(p, resp, tok)
    /\ UNCHANGED <<config, capabilities, active_connections, open, pc, inbound,
                   turn, sent, init_outcome>>

\* The tool-server clients alone, called as a library.
ClientNext == \E p \in SeqToSet(mcp_clients) : CallToolStep(p)

ClientSpec == Init /\ [][ClientNext]_vars

(***************************************************************************)
(* The dispatcher called on its own, over lists of several clients.        *)
(***************************************************************************)
\* The tool servers a list of several clients may name.
DispatchProviders == {"search", "files"}

\* The lists src.main.mcp_clients may hold, in registration order.
ClientLists ==
    { <<>> } \cup { <<p>> : p \in DispatchProviders }
            \cup { l \in { <<p, q>> : p, q \in DispatchProviders } : l[1] # l[2] }

\* What each provider would answer to a tools/call request for the call.
ProviderAnswers == [DispatchProviders -> {"output", "error"}]

\* The providers a request was made of during the loop over the clients
\* (lines 72-95): those whose client.execute_tool(...) got as far as a call.
ProvidersReached(call, clients) ==
    IF call.args_ok
    THEN SelectSeq(clients, LAMBDA p : ~ClientExecuteTool(p, call).raised)
    ELSE <<>>

\* One call of execute_mcp_tool with src.main.mcp_clients = clients.
DispatcherCall ==
    /\ Len(results) < MaxDispatches
    /\ \E clients \in ClientLists, answers \in ProviderAnswers,
          name \in ProposedNames, ok \in BOOLEAN, o \in HandlerOutcomes \ {"timeout"} :
         LET call == ToolCall(CallId(Len(results) + 1), name, ok) IN
         results' = Append(results,
                           [call |-> call, clients |-> clients, answers |-> answers,
                            reached |-> ProvidersReached(call, clients),
                            result |-> ExecuteMcpTool(call, clients, o)])
    /\ UNCHANGED <<config, capabilities, active_connections, open, pc, inbound,
                   turn, sent, remoteCalls, clientState>>

DispatcherNext == DispatcherCall

DispatcherSpec == Init /\ [][DispatcherNext]_vars

(***************************************************************************)
(* Specification: one client connection, every configuration.              *)
(***************************************************************************)
TurnStep(c) ==
    \/ Parse(c)
    \/ ListTools(c)
    \/ Initialize(c)
    \/ InitializeList(c)
    \/ Processing(c)
    \/ StdCall(c)
    \/ StdStream(c)
    \/ HandleToolCall(c)
    \/ McpStart(c)
    \/ Discovery(c)
    \/ Dispatch(c)
    \/ FinalNotice(c)
    \/ FinalCall(c)
    \/ FinalStream(c)
    \/ Complete(c)

Next ==
    \E c \in {"c1"} :
       \/ Connect(c)
       \/ ClientDrop(c)
       \/ Receive(c)
       \/ TurnStep(c)

Spec == Init /\ [][Next]_vars

\* Fairness: the event loop resumes a turn that can run, and every backend
\* call, tool-server call and tool dispatch returns, fails or times out.
LiveSpec == Spec /\ WF_vars(\E c \in {"c1"} : TurnStep(c))

\* A client that connects, sends no frame and goes away.
Leave(c) == pc[c] = "recv" /\ ~open[c] /\ Receive(c)

\* Two connections: c1 as in Next, c2 idle.
MultiNext ==
    \/ Next
    \/ \E c \in {"c2"} : Connect(c) \/ ClientDrop(c) \/ Leave(c)

MultiSpec == Init /\ [][MultiNext]_vars

\* The server with an arbitrary adapter in place of the OpenAI adapter.
AnyAdapterNext ==
    \E c \in {"c1"} :
       \/ Connect(c)
       \/ ClientDrop(c)
       \/ Receive(c)
       \/ Parse(c)
       \/ ListTools(c)
       \/ Initialize(c)
       \/ InitializeList(c)
       \/ AdapterYield(c)
       \/ YieldedToolCall(c)
       \/ AdapterEnd(c)

AnyAdapterSpec == Init /\ [][AnyAdapterNext]_vars

\* The capability cache under everything that uses a tool-server client: the
\* tool listing of a turn (to_openai_tools, get_tools, initialize) and
\* call_tool called directly.
CacheNext ==
    \/ \E c \in {"c1"} :
          \/ Connect(c)
          \/ Receive(c)
          \/ Parse(c)
          \/ ListTools(c)
          \/ Initialize(c)
          \/ InitializeList(c)
    \/ ClientNext

CacheSpec == Init /\ [][CacheNext]_vars

\* Two connections whose turns overlap: each turn lists its tools, refreshing
\* the first client's cache if it is empty, and sends up to its first call of
\* the model backend, which does not answer.
RefreshNext ==
    \E c \in Clients :
       \/ Connect(c)
       \/ ClientDrop(c)
       \/ Receive(c)
       \/ Parse(c)
       \/ ListTools(c)
       \/ Initialize(c)
       \/ InitializeList(c)
       \/ Processing(c)
       \/ McpStart(c)

RefreshSpec == Init /\ [][RefreshNext]_vars

(***************************************************************************)
(* Properties.                                                             *)
(***************************************************************************)
Last(s) == s[Len(s)]

\* A validated chat envelope is being, or was last, handled for c.
HasTurn(c) == turn[c].request_id # NoRid

\* The turn of c is over and the read loop is back at receive_text.
TurnOver(c) == HasTurn(c) /\ pc[c] = "recv"

IsProcessing(m) == m.status = "processing"

IsTextChunk(m) == m.status = "chunk" /\ m.type = "text"

IsToolResult(m) == m.status = "chunk" /\ m.type = "tool_result"

IsToolCall(m) == m.status = "chunk" /\ m.type = "tool_call"

NumProcessing(s) == Cardinality({ i \in 1..Len(s) : IsProcessing(s[i]) })

NumTerminal(s) == Cardinality({ i \in 1..Len(s) : IsTerminal(s[i]) })

NumTextChunks(s) == Cardinality({ i \in 1..Len(s) : IsTextChunk(s[i]) })

NumToolResults(s) == Cardinality({ i \in 1..Len(s) : IsToolResult(s[i]) })

\* C1: of the messages sent for a turn at most one is terminal (complete or
\* error), it is the last one, and nothing is sent after it.
C1_SingleTerminalLast ==
    \A c \in Clients :
      \A i \in 1..Len(sent[c]) : IsTerminal(sent[c][i]) => i = Len(sent[c])

\* A turn that had sent chunks ended with an error status.
C1_Witness ==
    \E c \in Clients :
      /\ TurnOver(c)
      /\ Len(sent[c]) > 2
      /\ Last(sent[c]).status = "error"
      /\ turn[c].backend_failed

\* C2: a turn, once created, leads to a terminal message carrying its
\* request_id, unless the connection goes away.
C2_TerminalEventually ==
    \A c \in Clients :
      (pc[c] = "tools") ~>
         (\/ ~open[c]
          \/ /\ TurnOver(c)
             /\ Len(sent[c]) > 0
             /\ IsTerminal(Last(sent[c]))
             /\ Last(sent[c]).request_id = turn[c].request_id)

\* A turn with a timed-out tool call reached its terminal message on an open
\* connection.
C2_Witness ==
    \E c \in Clients :
      /\ TurnOver(c)
      /\ open[c]
      /\ "timeout" \in SeqToSet(turn[c].outcomes)
      /\ IsTerminal(Last(sent[c]))
      /\ Last(sent[c]).request_id = turn[c].request_id

ListingError(c) ==
    /\ sent[c] = << ChatErrorMsg(turn[c].request_id) >>
    /\ turn[c].backend_calls = 0
    /\ pc[c] \in {"recv", "closed"}
    /\ NeedsInitialize(mcp_enabled, mcp_clients, capabilities)

NoToolProposed(c) == turn[c].calls = <<>> /\ turn[c].tool_deltas = 0

\* The turn of c ran to its completion status: every backend call succeeded
\* and every send went through.
Completed(c) == TurnOver(c) /\ Last(sent[c]).status = "complete"

\* sent[c] is one processing, then only text chunks, then one complete.
TextOnlyShape(c) ==
    LET s == sent[c] IN
    /\ Len(s) >= 2
    /\ s[1] = ProcessingMsg(turn[c].request_id, turn[c].text)
    /\ Last(s) = CompleteMsg(turn[c].request_id)
    /\ \A i \in 2..(Len(s) - 1) : IsTextChunk(s[i])

\* C4 as stated: with no tool call proposed, a turn that completes has sent
\* one processing, then one or more text chunks, then one complete.
C4_AsStated ==
    \A c \in Clients :
      (Completed(c) /\ NoToolProposed(c)) =>
         /\ TextOnlyShape(c)
         /\ NumTextChunks(sent[c]) >= 1

\* C4 (amended): with no tool call proposed, a turn ends with complete unless
\* a backend call failed, and a turn that completes has sent one processing,
\* then only text chunks, then one complete; at least two text chunks in the
\* two-phase flow, possibly none in the standard flow.
C4_TextThenComplete ==
    \A c \in Clients :
      (TurnOver(c) /\ NoToolProposed(c) /\ turn[c].backend_calls > 0) =>
         /\ ~turn[c].backend_failed => Completed(c)
         /\ Completed(c) =>
              /\ TextOnlyShape(c)
              /\ UsesMcpFlow(turn[c].tools) => NumTextChunks(sent[c]) >= 2

\* A standard-flow turn completed with text chunks, none of another type.
C4_Witness ==
    \E c \in Clients :
      /\ Completed(c)
      /\ NoToolProposed(c)
      /\ ~UsesMcpFlow(turn[c].tools)
      /\ NumTextChunks(sent[c]) >= 1

\* The outbound sequence of a two-phase turn with the one call `call`, up to
\* the final-phase text.
OneCallPrefix(rid, text, call) ==
    << ProcessingMsg(rid, text),
       TextChunk(rid, <<"starting">>, Meta("phase", "start", 0)),
       TextChunk(rid, <<"executing">>, Meta("phase", "tool_execution", 1)),
       ServerMessage(rid, "chunk", TRUE, "tool_result", call.name,
                     Meta("tool_id", call.id, 0), ""),
       TextChunk(rid, <<"getting final">>, Meta("phase", "final_response", 0)) >>

\* C5: a turn whose discovery response proposed exactly one tool call, which
\* executed successfully, ends with complete unless the final backend call
\* failed, and then has sent, in order: the announce chunk, exactly one
\* tool_result chunk carrying the call's id, text chunks only, complete.
C5_OneCallSequence ==
    \A c \in Clients :
      LET t == turn[c]
          s == sent[c]
      IN (TurnOver(c) /\ Len(t.calls) = 1 /\ t.outcomes = <<"output">>) =>
           /\ ~t.backend_failed => Completed(c)
           /\ Completed(c) =>
                /\ Len(s) >= 6
                /\ SubSeq(s, 1, 5) = OneCallPrefix(t.request_id, t.text, t.calls[1])
                /\ \A i \in 6..(Len(s) - 1) :
                     s[i] = TextChunk(t.request_id, <<"content">>, NoMeta)
                /\ Last(s) = CompleteMsg(t.request_id)
                /\ NumToolResults(s) = 1

\* A one-call turn completed with final-phase text.
C5_Witness ==
    \E c \in Clients :
      /\ Completed(c)
      /\ Len(turn[c].calls) = 1
      /\ turn[c].outcomes = <<"output">>
      /\ Len(sent[c]) >= 7

\* C6: the k-th dispatch timing out leaves, as the k-th tool-role message of
\* the conversation, an error object keyed to the k-th call's id; the turn
\* then ends only after every proposed call was dispatched and the final
\* backend call was issued, and with complete unless a backend call failed.
C6_TimeoutDegrades ==
    \A c \in Clients :
      LET t == turn[c] IN
      \A k \in 1..Len(t.outcomes) :
        t.outcomes[k] = "timeout" =>
          /\ Len(t.conv) >= 3 + k
          /\ t.conv[3 + k].role = "tool"
          /\ t.conv[3 + k].tool_call_id = t.calls[k].id
          /\ t.conv[3 + k].content.shape = "error"
          /\ pc[c] = "recv" =>
               /\ Len(t.outcomes) = Len(t.calls)
               /\ t.backend_calls = 2
               /\ ~t.backend_failed => Last(sent[c]).status = "complete"

\* The second of two calls timed out and the turn completed.
C6_Witness ==
    \E c \in Clients :
      /\ Completed(c)
      /\ Len(turn[c].outcomes) = 2
      /\ turn[c].outcomes[2] = "timeout"
      /\ turn[c].backend_calls = 2

\* name with the "{provider}_" prefix removed.
Unprefixed(name) == Tail(name)

\* The calls of the turn of c whose dispatch has returned or timed out.
Dispatched(c) == 1..Len(turn[c].outcomes)

\* C7 as stated: a dispatched call named "{provider}_{tool}" for a configured
\* provider was forwarded to that provider, and to no other, under the name
\* without the prefix.
C7_AsStated ==
    \A c \in Clients :
      \A k \in Dispatched(c) :
        LET call == turn[c].calls[k] IN
        \A p \in SeqToSet(mcp_clients) :
          (call.args_ok /\ StartsWithPrefix(call.name, p)) =>
            /\ \E i \in 1..Len(remoteCalls) :
                 remoteCalls[i] = RemoteCall(p, Unprefixed(call.name), call.id)
            /\ \A i \in 1..Len(remoteCalls) :
                 remoteCalls[i].id = call.id => remoteCalls[i].provider = p

\* No local tool and no configured provider's prefix matches the name.
Unresolvable(name) ==
    /\ ~RegistryHas(name)
    /\ \A p \in SeqToSet(mcp_clients) : ~StartsWithPrefix(name, p)

\* C8 as stated: a dispatched call whose name nothing resolves has, as its
\* tool-role message, a not-found error, and the turn goes on to complete.
C8_AsStated ==
    \A c \in Clients :
      LET t == turn[c] IN
      \A k \in Dispatched(c) :
        (t.calls[k].args_ok /\ Unresolvable(t.calls[k].name)) =>
          /\ t.conv[3 + k].role = "tool"
          /\ t.conv[3 + k].tool_call_id = t.calls[k].id
          /\ t.conv[3 + k].content.error = "not_found"
          /\ (pc[c] = "recv" /\ ~t.backend_failed) => Last(sent[c]).status = "complete"

\* C9 as stated: a dispatched call whose name is registered locally ran the
\* local handler, with or without tool-server clients, and reached no provider.
C9_AsStated ==
    \A c \in Clients :
      \A k \in Dispatched(c) :
        LET call == turn[c].calls[k] IN
        (call.args_ok /\ RegistryHas(call.name)) =>
          /\ \E i \in 1..Len(turn[c].executed) :
               turn[c].executed[i] = [target |-> "local", name |-> call.name, id |-> call.id]
          /\ \A i \in 1..Len(remoteCalls) : remoteCalls[i].id # call.id

\* C10: handling a frame that is not valid JSON, on an open connection, sends
\* exactly one error response without request_id and returns to receive_text;
\* no turn is created, no backend call is issued, and the connection table
\* and the capability caches are as before, so that the frame can be replayed
\* with the same effect.
C10_BadJsonLocalError ==
    [][\A c \in Clients :
         (pc[c] = "parse" /\ JsonLoads(inbound[c]) = "JSONDecodeError" /\ open[c]
            /\ pc'[c] # "parse") =>
           /\ sent'[c] = sent[c] \o << LocalErrorMsg("invalid_json") >>
           /\ Len(sent'[c]) = 1
           /\ sent'[c][1].request_id = NoRid
           /\ pc'[c] = "recv"
           /\ turn'[c] = EmptyTurn
           /\ active_connections' = active_connections
           /\ c \in active_connections'
           /\ capabilities' = capabilities]_vars

\* A truncated frame was answered and the read loop is back at receive_text.
C10_Witness ==
    \E c \in Clients :
      /\ pc[c] = "recv"
      /\ ~inbound[c].wellformed
      /\ sent[c] = << LocalErrorMsg("invalid_json") >>
      /\ c \in active_connections

\* The frame last read from c is JSON but not a valid envelope, and its
\* handling is over without a send having failed.
RejectedEnvelope(c) ==
    /\ pc[c] \in {"recv", "closed"}
    /\ JsonLoads(inbound[c]) # "JSONDecodeError"
    /\ ValidateClientMessage(inbound[c]) # "ok"
    /\ turn[c].failed_sends = 0

\* C11 as stated: a frame that is JSON but not a valid envelope (not an
\* object, a missing field, an unknown action) is answered with exactly one
\* local error response, no turn is created, and while the client stays the
\* connection is registered and the loop is back at receive_text.
C11_AsStated ==
    \A c \in Clients :
      RejectedEnvelope(c) =>
        /\ Len(sent[c]) = 1
        /\ sent[c][1].status = "error"
        /\ sent[c][1].request_id = NoRid
        /\ ~HasTurn(c)
        /\ open[c] => (pc[c] = "recv" /\ c \in active_connections)

\* C12 as stated: no turn is started for a chat payload whose text is the
\* empty string.
C12_AsStated ==
    \A c \in Clients : HasTurn(c) => turn[c].text # ""

\* C13: in every message sent, chunk is present only with status chunk or
\* processing, and error is present only with status error.
C13_ChunkErrorPresence ==
    \A c \in Clients :
      \A i \in 1..Len(sent[c]) :
        LET m == sent[c][i] IN
        /\ m.has_chunk => m.status \in {"chunk", "processing"}
        /\ m.error # "" => m.status = "error"
        /\ m.status \in {"complete", "error"} => ~m.has_chunk
        /\ m.status \in {"processing", "chunk", "complete"} => m.error = ""

\* A turn sent processing, chunks and then the adapter's error status.
C13_Witness ==
    \E c \in Clients :
      /\ Len(sent[c]) >= 4
      /\ sent[c][1].status = "processing" /\ sent[c][1].has_chunk
      /\ sent[c][2].status = "chunk" /\ sent[c][2].has_chunk
      /\ Last(sent[c]) = AdapterErrorMsg(turn[c].request_id)

\* C14: every message sent for a validated envelope carries the request_id
\* of that envelope.
C14_RequestIdEchoed ==
    \A c \in Clients :
      HasTurn(c) =>
        \A i \in 1..Len(sent[c]) : sent[c][i].request_id = inbound[c].request_id

\* A turn for request r2 sent processing, a chunk and the turn-boundary error.
C14_Witness ==
    \E c \in Clients :
      /\ HasTurn(c)
      /\ inbound[c].request_id = "r2"
      /\ Len(sent[c]) >= 3
      /\ sent[c][1].status = "processing"
      /\ Last(sent[c]).error = "chat_error"

\* C15 as stated: once a send of a turn has failed because the connection is
\* gone, no further send is attempted on that connection: at most one send
\* fails between two reads.
C15_AsStated ==
    \A c \in Clients : turn[c].failed_sends <= 1

\* The turn of c is suspended in a call to the model backend or a tool server.
AwaitingExternal(c) ==
    pc[c] \in {"init", "init_list", "discovery", "dispatch", "final", "std_stream",
              "final_stream"}

\* C16 as stated: while a turn is suspended in a backend or tool-server call
\* and the connection is open, the read loop can read the next frame of the
\* same connection.
C16_AsStated ==
    \A c \in Clients :
      (open[c] /\ AwaitingExternal(c)) => ENABLED Receive(c)

\* C17: the messages written for a turn are, in order, the first messages
\* the turn produced, none lost, duplicated or reordered; all of them unless
\* a send failed.  (A connection's turns run one after the other, so the
\* messages of one request_id are never interleaved with another's.)
C17_WrittenInProductionOrder ==
    \A c \in Clients :
      LET s == sent[c]
          p == turn[c].produced
      IN HasTurn(c) =>
           /\ Len(s) <= Len(p)
           /\ s = SubSeq(p, 1, Len(s))
           /\ turn[c].failed_sends = 0 => s = p

\* A two-phase turn wrote announce, tool_result, final text and complete.
C17_Witness ==
    \E c \in Clients :
      /\ Completed(c)
      /\ Len(sent[c]) >= 7
      /\ IsToolResult(sent[c][4])
      /\ sent[c] = turn[c].produced

\* C18: disconnect(client_id) leaves the client's record absent and does not
\* raise; repeated, or called for an id without a record, it changes nothing
\* and does not raise; no call changes the record of another client.
C18_DisconnectIdempotent ==
    \A c \in Clients :
      LET first == DisconnectCall(active_connections, c)
          second == DisconnectCall(first.conns, c)
      IN /\ ~first.raised
         /\ c \notin first.conns
         /\ ~second.raised
         /\ second.conns = first.conns
         /\ \A d \in Clients \ {c} : d \in first.conns <=> d \in active_connections

\* The read loop of c1 has ended with disconnect while c2 is registered.
C18_Witness ==
    /\ pc["c1"] = "closed"
    /\ "c1" \notin active_connections
    /\ "c2" \in active_connections

\* The responses of a transport failure or of a JSON-RPC error: an error
\* object that is not empty and whose message is not null.
FailureResponses ==
    TransportFailures \cup
    {"result_and_error", "error_message", "error_empty_message",
     "error_no_message", "error_bad_message"}

C20_AsStated ==
    \A i \in 1..Len(results) :
      ~(results[i].result.output = Null /\ results[i].result.error = Null)

\* C21 as stated: the next request to a provider carries the token that
\* provider issued last, on whatever response; none if it issued none.
C21_AsStated ==
    \A p \in SeqToSet(mcp_clients) : HeaderSent(session_id[p]) = last_token[p]

\* C22 as stated: an initialize() that returned normally left the capability
\* cache populated.
C22_AsStated ==
    \A p \in SeqToSet(mcp_clients) :
      init_outcome[p] = "returned" => capabilities[p].cached

\* The complete capability sets of provider p: nothing, or one of the lists
\* the provider serves.
Snapshots(p) == {NoCapabilities} \cup { Capabilities(l) : l \in ToolLists(p) }

\* The tool lists a turn can have assembled from complete capability sets:
\* the namespaced tools of one set, then the combined tools of one set.
CompleteViews ==
    IF ~mcp_enabled THEN { <<>> }
    ELSE IF mcp_clients = <<>> THEN { <<>>, RegistryTools }
    ELSE LET sets == [Providers -> UNION { Snapshots(p) : p \in Providers }]
         IN { RemoteTools(a, mcp_clients) : a \in sets }
            \cup { AddCombined(RemoteTools(a, mcp_clients),
                               CachedTools(b, mcp_clients[1]), 1) : a, b \in sets }

\* C23: whatever turns and refreshes overlap, the cache holds a complete
\* capability set (nothing, or a whole list the provider served), and the
\* tool list a turn has read comes from complete sets only.
C23_NoPartialRefresh ==
    /\ \A p \in Providers : capabilities[p] \in Snapshots(p)
    /\ \A c \in Clients : turn[c].tools \in CompleteViews

\* The refresh of one turn has replaced the cache while the refresh of
\* another turn is still waiting for its tools/list answer.
C23_Witness ==
    /\ pc["c1"] = "init_list"
    /\ pc["c2"] = "start"
    /\ capabilities["search"] = Capabilities(ProviderTools("search"))
    /\ turn["c2"].tools = ProviderTools("search")
    /\ turn["c1"].tools = <<>>

\* The tool list of the turn of c has been offered to the model backend.
Offered(c) == HasTurn(c) /\ turn[c].backend_calls > 0

\* C24 as stated: in the tool list offered to the backend, every tool cached
\* for a configured provider is listed as "{provider}_{tool}" and not under
\* its bare name.
C24_AsStated ==
    \A c \in Clients :
      Offered(c) =>
        \A p \in SeqToSet(mcp_clients) :
          \A i \in 1..Len(CachedTools(capabilities, p)) :
            LET tool == CachedTools(capabilities, p)[i] IN
            /\ Namespaced(p, tool) \in SeqToSet(turn[c].tools)
            /\ tool \notin SeqToSet(turn[c].tools)

\* C25 as stated: with tool use enabled, the tool list offered to the backend
\* has every tool of the local registry under its bare name, with or without
\* tool-server clients.
C25_AsStated ==
    \A c \in Clients :
      (Offered(c) /\ mcp_enabled) =>
        \A i \in 1..Len(RegistryTools) : RegistryTools[i] \in SeqToSet(turn[c].tools)

\* The tool_result chunks sent to c for the call with the given id.
ResultChunksFor(c, id) ==
    { i \in 1..Len(sent[c]) : IsToolResult(sent[c][i]) /\ sent[c][i].meta.val = id }

\* C26 as stated: a tool_result chunk is sent for a proposed call only if its
\* dispatch succeeded; a call that timed out or came back as an error result
\* has no tool_result chunk, only its tool-role message in the conversation.
C26_AsStated ==
    \A c \in Clients :
      LET t == turn[c] IN
      \A k \in 1..Len(t.outcomes) :
        t.conv[3 + k].content.status # "success" =>
          ResultChunksFor(c, t.calls[k].id) = {}

\* C27: every dispatch that did not time out gave the conversation a result
\* object with status success or error, an error status carrying a message;
\* unparsable arguments, an unknown name and a handler that raises give status
\* error; and a turn in which calls were dispatched ends, if its sends
\* succeeded, only after all of them were dispatched and the final backend
\* call was issued.
C27_DispatcherNeverRaises ==
    \A c \in Clients :
      LET t == turn[c] IN
      /\ \A k \in 1..Len(t.outcomes) :
           LET call == t.calls[k]
               msg == t.conv[3 + k]
           IN t.outcomes[k] # "timeout" =>
                /\ msg.tool_call_id = call.id
                /\ msg.content.shape = "ToolResult"
                /\ msg.content.status \in {"success", "error"}
                /\ msg.content.status = "error" => msg.content.error # ""
                /\ (~call.args_ok \/ t.outcomes[k] = "raises"
                      \/ (~RegistryHas(call.name) /\ mcp_clients = <<>>))
                     => msg.content.status = "error"
      /\ (t.calls # <<>> /\ pc[c] = "recv" /\ t.failed_sends = 0) =>
           /\ Len(t.outcomes) = Len(t.calls)
           /\ t.backend_calls = 2

\* A completed turn with two calls: the first with unparsable arguments, the
\* second a local tool whose handler raised.
C27_Witness ==
    \E c \in Clients :
      /\ Completed(c)
      /\ Len(turn[c].outcomes) = 2
      /\ ~turn[c].calls[1].args_ok
      /\ turn[c].outcomes[2] = "raises"

\* C28: once a backend call of a turn has failed (and the error could be
\* written), the turn is over: the error status is the last message, it is the
\* only terminal one, no complete was sent, and no backend call is issued
\* until the next envelope; the failing step keeps everything sent before and
\* adds only the error status.
C28_BackendFailureEndsTurn ==
    /\ [](\A c \in Clients :
            LET t == turn[c] IN
            (t.backend_failed /\ t.failed_sends = 0) =>
              /\ pc[c] \in {"recv", "closed"}
              /\ Last(sent[c]) = AdapterErrorMsg(t.request_id)
              /\ NumTerminal(sent[c]) = 1
              /\ \A i \in 1..Len(sent[c]) : sent[c][i].status # "complete")
    /\ [][\A c \in Clients :
            /\ (~turn[c].backend_failed /\ turn'[c].backend_failed
                  /\ turn'[c].failed_sends = 0) =>
                 sent'[c] = Append(sent[c], AdapterErrorMsg(turn[c].request_id))
            /\ (turn[c].backend_failed /\ turn'[c].backend_failed) =>
                 turn'[c].backend_calls = turn[c].backend_calls]_vars

\* The final backend call of a two-phase turn failed after a tool call was
\* dispatched and its tool_result chunk sent.
C28_Witness ==
    \E c \in Clients :
      /\ TurnOver(c)
      /\ turn[c].backend_failed
      /\ turn[c].backend_calls = 2
      /\ NumToolResults(sent[c]) >= 1
      /\ Last(sent[c]) = AdapterErrorMsg(turn[c].request_id)

\* C29 as stated: with any adapter, a message the adapter yields after the
\* terminal message of the turn is not written to the client: the messages
\* sent end at the first terminal message produced.
C29_AsStated ==
    \A c \in Clients :
      \A i \in 1..Len(turn[c].produced) :
        IsTerminal(turn[c].produced[i]) => Len(sent[c]) <= i

\* C30: a turn runs the two-phase flow exactly when its assembled tool list
\* is non-empty, and then the discovery call carries that list; with an empty
\* list (tool use disabled, or enabled with no tool known) it runs the
\* standard flow with no tools attached to the backend call; every backend
\* call belongs to one of the two flows.
C30_FlowByToolList ==
    \A c \in Clients :
      LET t == turn[c] IN
      /\ t.flow \in {"", "standard", "two_phase"}
      /\ t.backend_calls > 0 => t.flow # ""
      /\ t.flow = "two_phase" =>
           /\ t.tools # <<>>
           /\ mcp_enabled
           /\ t.backend_calls > 0 => t.attached = t.tools
      /\ t.flow = "standard" => (t.tools = <<>> /\ t.attached = <<>>)

\* Tool use is enabled, no tool is known, and the turn completed in the
\* standard flow.
C30_Witness ==
    \E c \in Clients :
      /\ mcp_enabled
      /\ Completed(c)
      /\ turn[c].flow = "standard"
      /\ turn[c].backend_calls = 1

\* The discovery call of the two-phase turn of c returned without tool calls.
DiscoveryWithoutCalls(c) ==
    /\ HasTurn(c)
    /\ turn[c].flow = "two_phase"
    /\ turn[c].backend_calls > 0
    /\ turn[c].calls = <<>>
    /\ ~turn[c].backend_failed

\* What such a turn has sent when it is over: processing, the start notice,
\* the discovery text, complete.
NoCallSequence(rid, text, hasContent) ==
    << ProcessingMsg(rid, text),
       TextChunk(rid, <<"starting">>, Meta("phase", "start", 0)),
       TextChunk(rid, DiscoveryText(hasContent), NoMeta),
       CompleteMsg(rid) >>

\* C31: after a discovery response without tool calls no tool is dispatched
\* and no second backend call is issued, and the turn, once over, has sent
\* the discovery text as one text chunk followed by complete.
C31_NoCallsEndsTurn ==
    \A c \in Clients :
      DiscoveryWithoutCalls(c) =>
        LET t == turn[c] IN
        /\ t.backend_calls = 1
        /\ t.outcomes = <<>> /\ t.executed = <<>> /\ remoteCalls = <<>>
        /\ pc[c] \in {"complete", "recv", "closed"}
        /\ (pc[c] = "recv" /\ t.failed_sends = 0) =>
             \E hasContent \in BOOLEAN :
               sent[c] = NoCallSequence(t.request_id, t.text, hasContent)

\* A two-phase turn whose discovery response had neither tool calls nor
\* content completed.
C31_Witness ==
    \E c \in Clients :
      /\ DiscoveryWithoutCalls(c)
      /\ Completed(c)
      /\ sent[c] = NoCallSequence(turn[c].request_id, turn[c].text, FALSE)

\* The positions in sent[c] of announce chunks.
Announces(c) ==
    { i \in 1..Len(sent[c]) :
        /\ IsTextChunk(sent[c][i])
        /\ sent[c][i].meta.key = "phase"
        /\ sent[c][i].meta.val = "tool_execution" }

\* C32: at most one announce chunk is sent in a turn; while calls are being
\* dispatched, and after any dispatch has started, exactly one has been sent,
\* it reports the number of calls the discovery response proposed, and every
\* tool_result chunk comes after it.
C32_AnnounceBeforeDispatch ==
    \A c \in Clients :
      LET t == turn[c] IN
      /\ Cardinality(Announces(c)) <= 1
      /\ Announces(c) # {} => t.calls # <<>>
      /\ (pc[c] = "dispatch" \/ t.outcomes # <<>> \/ t.executed # <<>>) =>
           /\ Len(t.calls) >= 1
           /\ \E i \in Announces(c) :
                /\ sent[c][i].request_id = t.request_id
                /\ sent[c][i].meta.n = Len(t.calls)
                /\ \A j \in 1..Len(sent[c]) : IsToolResult(sent[c][j]) => i < j

\* Two calls were proposed and announced, and the first is about to be
\* dispatched.
C32_Witness ==
    \E c \in Clients :
      /\ pc[c] = "dispatch"
      /\ Len(turn[c].calls) = 2
      /\ turn[c].outcomes = <<>>
      /\ Last(sent[c]) = Announce(turn[c].request_id, 2)

\* The tool-role messages of a conversation, in order.
ToolMessages(conv) == SelectSeq(conv, LAMBDA m : m.role = "tool")

\* C33: while the calls are dispatched the conversation holds one tool-role
\* message per call handled so far, in proposal order and keyed to that call's
\* id; the conversation of the final backend call holds exactly one per
\* proposed call, whatever the outcomes of the dispatches.
C33_OneToolMessagePerCall ==
    \A c \in Clients :
      LET t == turn[c]
          msgs == ToolMessages(t.conv)
      IN /\ Len(msgs) = Len(t.outcomes)
         /\ Len(msgs) <= Len(t.calls)
         /\ \A k \in 1..Len(msgs) :
              /\ msgs[k].tool_call_id = t.calls[k].id
              /\ t.conv[3 + k] = msgs[k]
         /\ t.backend_calls = 2 =>
              /\ Len(msgs) = Len(t.calls)
              /\ Len(t.conv) = 3 + Len(t.calls)

\* The final backend call was issued after two calls, the first timed out and
\* the second came back as an error result.
C33_Witness ==
    \E c \in Clients :
      /\ turn[c].backend_calls = 2
      /\ turn[c].outcomes = <<"timeout", "error_result">>
      /\ Len(ToolMessages(turn[c].conv)) = 2

\* The positions in clients of the providers that answer the call without
\* error.
Answering(e) ==
    { j \in 1..Len(e.clients) : e.answers[e.clients[j]] = "output" }

\* C34 as stated: with several clients, a call with parsable arguments is put
\* to the providers in registration order up to the first that answers
\* without error, whose result is returned as success; if none does, every
\* provider was asked and an error result is returned.
C34_AsStated ==
    \A i \in 1..Len(results) :
      LET e == results[i] IN
      (e.call.args_ok /\ Len(e.clients) >= 2) =>
        IF Answering(e) # {}
        THEN LET first == CHOOSE j \in Answering(e) : \A k \in Answering(e) : j <= k IN
             /\ e.result.status = "success"
             /\ e.reached = SubSeq(e.clients, 1, first)
        ELSE /\ e.result.status = "error"
             /\ e.reached = e.clients

\* C35: a step changes the cached capability set of a provider only if it is
\* the end of an initialize() of that provider's client that returned after
\* both exchanges, and it then leaves a complete tool list cached; the tool
\* listing on a populated cache, call_tool, and an initialize() that raises or
\* stops after a response without result change no cache.
C35_CacheFrame ==
    [][\A p \in Providers :
         capabilities'[p] # capabilities[p] =>
           /\ mcp_clients # <<>> /\ p = mcp_clients[1]
           /\ \E c \in Clients : pc[c] = "init_list" /\ pc'[c] = "start"
           /\ init_outcome'[p] = "returned"
           /\ capabilities'[p].cached
           /\ capabilities'[p] \in Snapshots(p)
           /\ results' = results]_vars

\* call_tool was called twice on a client whose cache an initialize() of a
\* turn had populated, and the cache is as that initialize() left it.
C35_Witness ==
    /\ Len(results) = 2
    /\ init_outcome["search"] = "returned"
    /\ capabilities["search"] = Capabilities(ProviderTools("search"))
    /\ \E c \in Clients : pc[c] = "start" /\ turn[c].tools = ProviderTools("search")

\* The server has handled the last tool_call chunk of the turn of c.
ChunkHandled(c) ==
    /\ HasTurn(c)
    /\ turn[c].tool_deltas > 0
    /\ pc[c] # "tool_call"
    /\ turn[c].failed_sends = 0

\* The requests made of the providers for the call with the given id.
RequestsFor(id) == { i \in 1..Len(remoteCalls) : remoteCalls[i].id = id }

\* C36 as stated: for a tool_call chunk it has handled, the server made at
\* most one request: to the configured provider whose prefix the named call
\* carries, under the name without the prefix and with the chunk's call id;
\* with no matching provider it made no request and sent no tool_result.
C36_AsStated ==
    \A c \in Clients :
      ChunkHandled(c) =>
        LET call == turn[c].delta
            matching == { p \in SeqToSet(mcp_clients) : StartsWithPrefix(call.name, p) }
        IN /\ Cardinality(RequestsFor(call.id)) <= 1
           /\ \A p \in matching :
                \E i \in RequestsFor(call.id) :
                  remoteCalls[i] = RemoteCall(p, Unprefixed(call.name), call.id)
           /\ matching = {} =>
                /\ RequestsFor(call.id) = {}
                /\ NumToolResults(sent[c]) = 0

\* The step fails the turn of c: the tool listing raises, a backend call of
\* the adapter fails, or the handling of a tool_call chunk raises.
TurnFails(c) ==
    \/ pc[c] \in {"init", "init_list"} /\ pc'[c] \in {"recv", "closed"}
    \/ ~turn[c].backend_failed /\ turn'[c].backend_failed
    \/ pc[c] = "tool_call" /\ pc'[c] \in {"recv", "closed"}

\* C37: a step that fails a turn while the connection is open adds exactly one
\* message, an error status carrying the turn's request_id, keeps the
\* connection's record, and leaves the read loop at receive_text with the
\* connection open; and reading the next frame starts from an empty turn, as
\* on a connection that has handled nothing yet.
C37_FaultIsolation ==
    [][\A c \in Clients :
         /\ (TurnFails(c) /\ open[c]) =>
              /\ Len(sent'[c]) = Len(sent[c]) + 1
              /\ SubSeq(sent'[c], 1, Len(sent[c])) = sent[c]
              /\ Last(sent'[c]).status = "error"
              /\ Last(sent'[c]).request_id = turn[c].request_id
              /\ c \in active_connections'
              /\ open'[c]
              /\ pc'[c] = "recv"
         /\ (pc[c] = "recv" /\ pc'[c] = "parse") =>
              (turn'[c] = EmptyTurn /\ sent'[c] = <<>>)]_vars

\* After a turn whose tool listing raised, on the same connection, the next
\* envelope has been read and validated.
C37_Witness ==
    \E c \in Clients :
      /\ pc[c] = "tools"
      /\ open[c] /\ c \in active_connections
      /\ init_outcome["search"] = "raised"
      /\ turn[c].backend_calls = 0 /\ sent[c] = <<>>

\* The clients that connected and whose read loop has not ended.
LoopRunning == { c \in Clients : pc[c] \notin {"none", "closed"} }

\* C38: the connection table holds exactly the clients whose read loop is
\* running: a record is added by connect, removed when that client's loop
\* ends (the client went away, a frame could not be handled, a send failure
\* left the turn), and never removed for another client.
C38_TableMatchesLoops == active_connections = LoopRunning

\* The read loop of c1 ended by a send failure that left its turn, while c2
\* is connected and its record is kept.
C38_Witness ==
    /\ pc["c1"] = "closed"
    /\ turn["c1"].failed_sends = 2
    /\ pc["c2"] = "recv"
    /\ active_connections = {"c2"}

=============================================================================
